---- MODULE Spec2Model ----
(***************************************************************************)
(* Model of backend/carenotes_api.py: a FastAPI service that keeps care    *)
(* notes in one SQLite table `notes` (id INTEGER PRIMARY KEY               *)
(* AUTOINCREMENT plus four TEXT NOT NULL columns).                         *)
(*                                                                         *)
(* The committed table is `notes` (rowid -> row), `seq` is the             *)
(* sqlite_sequence entry that AUTOINCREMENT maintains.  One action per     *)
(* endpoint handler, one for the startup hook, one for a process stop and  *)
(* one for the finalisation of a connection a handler left open.  `resp`   *)
(* is the response of the last request the process served: `body` when    *)
(* the response is a JSON object, `items` when it is a JSON array.         *)
(*                                                                         *)
(* Spec runs the handlers one request at a time.  SpecConc runs two worker *)
(* threads through the write handlers statement by statement, each on its  *)
(* own connection, with SQLite's single write lock between them.           *)
(***************************************************************************)
EXTENDS Integers, Sequences, FiniteSets, TLC

\* ------------------------------------------------------------------ bounds
\* Largest rowid the model lets sqlite_sequence reach.
MaxId == 4

\* ------------------------------------------------------------- vocabulary
Fields == {"residentName", "dateTime", "content", "authorName"}

NoFilter == "<None>"      \* Query(None): the parameter was not supplied

\* A JSON object without members: the body of a request that sends none.
NoNote == [f \in {} |-> ""]

\* The rows create_database inserts into an empty table.
SeedNotes ==
  << [residentName |-> "Alice Johnson", dateTime |-> "2024-09-17T10:30:00Z",
      content |-> "Medication administered as scheduled.",
      authorName |-> "Nurse Smith"],
     [residentName |-> "Bob Williams", dateTime |-> "2024-09-17T11:45:00Z",
      content |-> "Assisted with physical therapy exercises.",
      authorName |-> "Dr. Brown"] >>

\* Request bodies the callers send.  A body is a function from the field
\* names it carries to text: a complete note, a note whose residentName and
\* authorName are empty text, and a body that lacks authorName.
Payloads ==
  { [residentName |-> "Carol Davis", dateTime |-> "2024-10-01T08:00:00Z",
     content |-> "Vitals checked.", authorName |-> "Nurse Lee"],
    [residentName |-> "", dateTime |-> "2024-10-02T09:15:00Z",
     content |-> "Unlabelled note.", authorName |-> ""],
    [residentName |-> "Carol Davis", dateTime |-> "2024-10-01T08:00:00Z",
     content |-> "Vitals checked."] }

\* Values of the residentName query parameter of /notes/list.
Filters == {NoFilter, "", "Alice Johnson", "Carol Davis", "Nobody"}

\* Values of the {id} path parameter.
IdInputs == (-1)..MaxId

\* ---------------------------------------------------------------- state
VARIABLES
  up,        \* the process is running (startup_event has completed)
  notes,     \* committed rows of table notes: rowid -> row
  seq,       \* sqlite_sequence.seq for table notes (0: no entry yet)
  lockHeld,  \* a connection left open by a handler holds the write lock
  resp,      \* outcome of the last request served by this process
  issued,    \* history: rowids given to inserted rows, in insertion order
  deleted,   \* history: ids whose delete request returned 200
  seedings,  \* history: number of times create_database inserted the seeds
  workers,   \* SpecConc: each worker thread's position in its handler
  lastCommit \* SpecConc, history: the worker whose write committed last

vars == <<up, notes, seq, lockHeld, resp, issued, deleted, seedings,
          workers, lastCommit>>

\* ------------------------------------------------------- the SQL engine
EmptyTable == [i \in {} |-> NoNote]

MaxOf(S) == IF S = {} THEN 0 ELSE CHOOSE m \in S : \A x \in S : x <= m

\* id INTEGER PRIMARY KEY, without AUTOINCREMENT: one more than the largest
\* rowid currently in the table.
NextRowidNoAutoincrement(tbl, sq) == MaxOf(DOMAIN tbl) + 1

\* A mistaken way to pick the id: one more than the number of rows.
NextRowidFromCount(tbl, sq) == Cardinality(DOMAIN tbl) + 1

\* id INTEGER PRIMARY KEY AUTOINCREMENT: one more than the largest rowid that
\* was ever in the table, which sqlite_sequence remembers.
NextRowid(tbl, sq) ==
  (IF MaxOf(DOMAIN tbl) > sq THEN MaxOf(DOMAIN tbl) ELSE sq) + 1

\* INSERT INTO notes (residentName, dateTime, content, authorName) VALUES (?,?,?,?)
InsertRow(tbl, sq, vals) ==
  LET rid == NextRowid(tbl, sq) IN
  [tbl |-> [i \in DOMAIN tbl \cup {rid} |-> IF i = rid THEN vals ELSE tbl[i]],
   seq |-> rid,
   lastrowid |-> rid]

\* A mistaken variant of the UPDATE: the SET clause names content alone.
UpdateContentOnly(tbl, vals, id) ==
  [tbl |-> [i \in DOMAIN tbl |->
              IF i = id THEN [tbl[i] EXCEPT !.content = vals.content] ELSE tbl[i]],
   rowcount |-> IF id \in DOMAIN tbl THEN 1 ELSE 0]

\* A mistaken variant of the UPDATE: INSERT OR REPLACE, which writes the row
\* whether or not the id exists.
UpdateOrInsert(tbl, vals, id) ==
  [tbl |-> [i \in DOMAIN tbl \cup {id} |-> IF i = id THEN vals ELSE tbl[i]],
   rowcount |-> 1]

\* UPDATE notes SET residentName = ?, dateTime = ?, content = ?, authorName = ? WHERE id = ?
UpdateRows(tbl, vals, id) ==
  [tbl |-> [i \in DOMAIN tbl |-> IF i = id THEN vals ELSE tbl[i]],
   rowcount |-> IF id \in DOMAIN tbl THEN 1 ELSE 0]

\* DELETE FROM notes WHERE id = ?
DeleteRows(tbl, id) ==
  [tbl |-> [i \in DOMAIN tbl \ {id} |-> tbl[i]],
   rowcount |-> IF id \in DOMAIN tbl THEN 1 ELSE 0]

\* The row with rowid i as the SELECT returns it and the handler copies it.
RowDict(tbl, i) ==
  [id |-> i, residentName |-> tbl[i].residentName, dateTime |-> tbl[i].dateTime,
   content |-> tbl[i].content, authorName |-> tbl[i].authorName]

RECURSIVE RowsOf(_, _)
\* The rows with rowid in S, in rowid order (a table scan).
RowsOf(tbl, S) ==
  IF S = {} THEN << >>
  ELSE LET m == MaxOf(S) IN Append(RowsOf(tbl, S \ {m}), RowDict(tbl, m))

\* SELECT ... FROM notes
SelectAll(tbl) == RowsOf(tbl, DOMAIN tbl)

\* A mistaken variant of the filtered SELECT: the WHERE clause is missing.
SelectWithoutWhere(tbl, name) == SelectAll(tbl)

\* SELECT ... FROM notes WHERE residentName = ?
SelectByResident(tbl, name) ==
  RowsOf(tbl, {i \in DOMAIN tbl : tbl[i].residentName = name})

\* SELECT COUNT(*) FROM notes
CountRows(tbl) == Cardinality(DOMAIN tbl)


\* ------------------------------------------------- framework boundaries
\* class Note(BaseModel): a body is accepted when it carries the four declared
\* str fields; the declaration puts no constraint on their length.
ValidNote(body) == Fields \subseteq DOMAIN body

\* The column values a handler binds from an accepted Note.
NoteValues(note) ==
  [residentName |-> note.residentName, dateTime |-> note.dateTime,
   content |-> note.content, authorName |-> note.authorName]

\* response_model=Note: the returned object is serialised through the Note
\* schema, which keeps the declared fields only.
ResponseModelNote(obj) == [f \in Fields |-> obj[f]]

\* The body of an HTTPException response; the text is kept in its parts.
Detail(text) == [detail |-> text]

\* The body of the validation error the framework answers on its own.
FieldRequired == Detail(<<"field required">>)

\* A mistaken variant of the except clause: the wrong status code.
CatchExceptionAsNotFound(exc) ==
  [status |-> 404, body |-> Detail(<<"Internal Server Error: ", exc>>)]

\* except Exception as e: raise HTTPException(status_code=500, ...).  The
\* clause catches every exception raised in the try block, the handler's own
\* HTTPException(404) included.
CatchException(exc) ==
  [status |-> 500, body |-> Detail(<<"Internal Server Error: ", exc>>)]

NoResp ==
  [op |-> "none", id |-> 0, note |-> NoNote, filter |-> NoFilter,
   status |-> 0, body |-> NoNote, items |-> << >>, new_id |-> 0,
   rowcount |-> -1,
   conn |-> "none", exc |-> "none", prev |-> [id |-> 0, note |-> NoNote]]

\* The exceptions of the storage layer: sqlite3.connect failing, and a write
\* statement finding the database locked.
StorageExceptions == {"connect failed", "database is locked"}

\* The worker threads that serve requests side by side.
Workers == {"w1", "w2"}

\* A worker that is serving no request.
IdleWorker ==
  [pc |-> "idle", op |-> "none", id |-> 0, note |-> NoNote, new_id |-> 0,
   rowcount |-> -1, lock |-> FALSE, txn |-> [tbl |-> [i \in {} |-> NoNote], seq |-> 0],
   conn |-> "none", status |-> 0, exc |-> "none", overlap |-> FALSE]

\* ---------------------------------------------------------------- Init
\* A store that was never used: no table yet, the process not started.
Init ==
  /\ up = FALSE
  /\ notes = EmptyTable
  /\ seq = 0
  /\ lockHeld = FALSE
  /\ resp = NoResp
  /\ issued = << >>
  /\ deleted = {}
  /\ seedings = 0
  /\ workers = [w \in Workers |-> IdleWorker]
  /\ lastCommit = "none"

\* ------------------------------------------------------ create_database
\* A mistaken variant of the seeding test: seed on every start.
SeedAlways(tbl) == TRUE

\* cursor.execute("SELECT COUNT(*) FROM notes"); if cursor.fetchone()[0] == 0
SeedNeeded(tbl) == CountRows(tbl) = 0

\* startup_event -> create_database: CREATE TABLE IF NOT EXISTS keeps an
\* existing table as it is; the two seed rows go into a table without rows.
create_database ==
  /\ ~up
  /\ IF SeedNeeded(notes)
       THEN LET a == InsertRow(notes, seq, SeedNotes[1])
                b == InsertRow(a.tbl, a.seq, SeedNotes[2])
            IN /\ b.lastrowid <= MaxId
               /\ notes' = b.tbl
               /\ seq' = b.seq
               /\ issued' = issued \o <<a.lastrowid, b.lastrowid>>
               /\ seedings' = seedings + 1
       ELSE UNCHANGED <<notes, seq, issued, seedings>>
  /\ up' = TRUE
  /\ resp' = NoResp
  /\ UNCHANGED <<lockHeld, deleted>>
  /\ UNCHANGED <<workers, lastCommit>>

\* The process ends: its connections, and the locks they hold, go with it.
Stop ==
  /\ up
  /\ up' = FALSE
  /\ lockHeld' = FALSE
  /\ resp' = NoResp
  /\ UNCHANGED <<notes, seq, issued, deleted, seedings>>
  /\ UNCHANGED <<workers, lastCommit>>

\* A connection that a handler left open is finalised once nothing refers to
\* it any more; sqlite3 then closes it and rolls its open transaction back.
Finalize ==
  /\ up
  /\ lockHeld
  /\ lockHeld' = FALSE
  /\ UNCHANGED <<up, notes, seq, resp, issued, deleted, seedings>>
  /\ UNCHANGED <<workers, lastCommit>>


\* ----------------------------------------------------------- create_note
\* The dict create_note returns.
CreatedDict(new_id, note) ==
  [id |-> new_id, residentName |-> note.residentName, dateTime |-> note.dateTime,
   content |-> note.content, authorName |-> note.authorName]

\* POST /notes/create with body `note`; `connects` says whether
\* sqlite3.connect succeeds.
create_note(note, connects) ==
  /\ up
  /\ LET req == [NoResp EXCEPT !.op = "create", !.note = note] IN
     IF ~ValidNote(note)
       THEN /\ resp' = [req EXCEPT !.status = 422,
                                   !.body = FieldRequired]
            /\ UNCHANGED <<notes, seq, issued>>
     ELSE IF ~connects
       THEN /\ resp' = [req EXCEPT !.exc = "connect failed",
                          !.status = CatchException("connect failed").status,
                          !.body = CatchException("connect failed").body]
            /\ UNCHANGED <<notes, seq, issued>>
     ELSE IF lockHeld
       THEN /\ resp' = [req EXCEPT !.exc = "database is locked", !.conn = "open",
                          !.status = CatchException("database is locked").status,
                          !.body = CatchException("database is locked").body]
            /\ UNCHANGED <<notes, seq, issued>>
     ELSE LET ins == InsertRow(notes, seq, NoteValues(note))
              new_id == ins.lastrowid
          IN /\ new_id <= MaxId
             /\ notes' = ins.tbl
             /\ seq' = ins.seq
             /\ issued' = Append(issued, new_id)
             /\ resp' = [req EXCEPT !.status = 200, !.new_id = new_id,
                           !.conn = "closed",
                           !.body = ResponseModelNote(CreatedDict(new_id, note))]
  /\ UNCHANGED <<up, lockHeld, deleted, seedings>>
  /\ UNCHANGED <<workers, lastCommit>>

\* ------------------------------------------------------------ list_notes
\* `if residentName:` -- None and the empty string both count as no filter.
Truthy(residentName) == residentName # NoFilter /\ residentName # ""

\* GET /notes/list, with or without ?residentName=
list_notes(residentName, connects) ==
  /\ up
  /\ LET req == [NoResp EXCEPT !.op = "list", !.filter = residentName,
                   !.prev = IF resp.op = "create" /\ resp.status = 200
                              THEN [id |-> resp.new_id, note |-> resp.note]
                              ELSE NoResp.prev]
         rows == IF Truthy(residentName)
                   THEN SelectByResident(notes, residentName)
                   ELSE SelectAll(notes)
     IN
     IF ~connects
       THEN resp' = [req EXCEPT !.exc = "connect failed",
                       !.status = CatchException("connect failed").status,
                       !.body = CatchException("connect failed").body]
     ELSE IF rows = << >>
       THEN resp' = [req EXCEPT !.exc = "404: No notes found.", !.conn = "closed",
                       !.rowcount = 0,
                       !.status = CatchException("404: No notes found.").status,
                       !.body = CatchException("404: No notes found.").body]
     ELSE resp' = [req EXCEPT !.status = 200, !.conn = "closed",
                     !.rowcount = Len(rows), !.items = rows]
  /\ UNCHANGED <<up, notes, seq, lockHeld, issued, deleted, seedings>>
  /\ UNCHANGED <<workers, lastCommit>>

\* ----------------------------------------------------------- update_note
\* PUT /notes/update/{id} with body `note`
update_note(id, note, connects) ==
  /\ up
  /\ LET req == [NoResp EXCEPT !.op = "update", !.id = id, !.note = note] IN
     IF ~ValidNote(note)
       THEN /\ resp' = [req EXCEPT !.status = 422,
                                   !.body = FieldRequired]
            /\ UNCHANGED <<notes, lockHeld>>
     ELSE IF ~connects
       THEN /\ resp' = [req EXCEPT !.exc = "connect failed",
                          !.status = CatchException("connect failed").status,
                          !.body = CatchException("connect failed").body]
            /\ UNCHANGED <<notes, lockHeld>>
     ELSE IF lockHeld
       THEN /\ resp' = [req EXCEPT !.exc = "database is locked", !.conn = "open",
                          !.status = CatchException("database is locked").status,
                          !.body = CatchException("database is locked").body]
            /\ UNCHANGED <<notes, lockHeld>>
     ELSE LET upd == UpdateRows(notes, NoteValues(note), id) IN
          IF upd.rowcount = 0
            \* raised before conn.commit() and conn.close(): the connection
            \* stays open inside its write transaction
            THEN /\ resp' = [req EXCEPT !.exc = "404: Note not found.",
                               !.conn = "open", !.rowcount = 0,
                               !.status = CatchException("404: Note not found.").status,
                               !.body = CatchException("404: Note not found.").body]
                 /\ lockHeld' = TRUE
                 /\ UNCHANGED notes
            ELSE /\ notes' = upd.tbl
                 /\ resp' = [req EXCEPT !.status = 200, !.conn = "closed",
                               !.rowcount = upd.rowcount,
                               !.body = ResponseModelNote(note)]
                 /\ UNCHANGED lockHeld
  /\ UNCHANGED <<up, seq, issued, deleted, seedings>>
  /\ UNCHANGED <<workers, lastCommit>>

\* ----------------------------------------------------------- delete_note
\* A mistaken variant of the id test: zero passes.
InvalidIdNegativeOnly(id) == id < 0

\* if id is None or id <= 0
InvalidId(id) == id <= 0

\* DELETE /notes/delete/{id}
delete_note(id, connects) ==
  /\ up
  /\ LET req == [NoResp EXCEPT !.op = "delete", !.id = id] IN
     IF InvalidId(id)
       THEN /\ resp' = [req EXCEPT !.status = 400,
                                   !.body = Detail(<<"Invalid note ID received">>)]
            /\ UNCHANGED <<notes, deleted>>
     ELSE IF ~connects
       THEN /\ resp' = [req EXCEPT !.exc = "connect failed",
                          !.status = CatchException("connect failed").status,
                          !.body = CatchException("connect failed").body]
            /\ UNCHANGED <<notes, deleted>>
     ELSE IF lockHeld
       THEN /\ resp' = [req EXCEPT !.exc = "database is locked", !.conn = "open",
                          !.status = CatchException("database is locked").status,
                          !.body = CatchException("database is locked").body]
            /\ UNCHANGED <<notes, deleted>>
     ELSE LET del == DeleteRows(notes, id) IN
          /\ notes' = del.tbl
          /\ IF del.rowcount = 0
               THEN /\ resp' = [req EXCEPT !.exc = "404: Note with ID <id> not found.",
                                  !.conn = "closed", !.rowcount = 0,
                                  !.status = CatchException("404: Note with ID <id> not found.").status,
                                  !.body = CatchException("404: Note with ID <id> not found.").body]
                    /\ UNCHANGED deleted
               ELSE /\ resp' = [req EXCEPT !.status = 200, !.conn = "closed",
                                  !.rowcount = del.rowcount,
                                  !.body = [message |-> <<"Note ", id, " deleted successfully.">>]]
                    /\ deleted' = deleted \cup {id}
  /\ UNCHANGED <<up, seq, lockHeld, issued, seedings>>
  /\ UNCHANGED <<workers, lastCommit>>

\* ------------------------------------------------------------------ Next
Next ==
  \/ create_database
  \/ Stop
  \/ Finalize
  \/ \E note \in Payloads, connects \in BOOLEAN : create_note(note, connects)
  \/ \E residentName \in Filters, connects \in BOOLEAN : list_notes(residentName, connects)
  \/ \E id \in IdInputs, note \in Payloads, connects \in BOOLEAN : update_note(id, note, connects)
  \/ \E id \in IdInputs, connects \in BOOLEAN : delete_note(id, connects)

Spec == Init /\ [][Next]_vars


\* ============================================================== SpecConc
\* FastAPI runs the `def` handlers in a thread pool: two requests can be
\* inside their handlers at once.  Each handler opens its own connection
\* (get_db_connection).  sqlite3 opens a transaction before the INSERT,
\* UPDATE or DELETE, the statement takes the database's write lock, and the
\* lock is held until that connection commits or is closed; the statement
\* of another connection meanwhile waits, and raises "database is locked"
\* when the wait times out.

\* The note bodies and the id the concurrent requests use.
ConcPayloads == {p \in Payloads : ValidNote(p)}
TargetIds == {1}

\* The store after the first create_database; no request yet.
InitConc ==
  LET a == InsertRow(EmptyTable, 0, SeedNotes[1])
      b == InsertRow(a.tbl, a.seq, SeedNotes[2])
  IN /\ up = TRUE
     /\ notes = b.tbl
     /\ seq = b.seq
     /\ lockHeld = FALSE
     /\ resp = NoResp
     /\ issued = <<a.lastrowid, b.lastrowid>>
     /\ deleted = {}
     /\ seedings = 1
     /\ workers = [w \in Workers |-> IdleWorker]
     /\ lastCommit = "none"

\* Worker w is inside a handler.
InFlight(w) == workers[w].pc \in {"connected", "executed"}

\* Worker w can take a request: the previous one has returned and its
\* connection is gone.
Free(w) == workers[w].pc \in {"idle", "done"} /\ workers[w].conn # "open"

\* The worker record of w on entering the handler of `op`.
Entered(w, op, id, note) ==
  [IdleWorker EXCEPT !.pc = "connected", !.op = op, !.id = id,
     !.note = note, !.conn = "open",
     !.overlap = \E o \in Workers \ {w} : InFlight(o)]

\* create_note: conn = get_db_connection()
create_connect(w, note) ==
  /\ Free(w)
  /\ workers' = [workers EXCEPT ![w] = Entered(w, "create", 0, note)]
  /\ UNCHANGED <<up, notes, seq, lockHeld, resp, issued, deleted, seedings,
                 lastCommit>>

\* update_note: conn = get_db_connection()
update_connect(w, id, note) ==
  /\ Free(w)
  /\ workers' = [workers EXCEPT ![w] = Entered(w, "update", id, note)]
  /\ UNCHANGED <<up, notes, seq, lockHeld, resp, issued, deleted, seedings,
                 lastCommit>>

\* delete_note: the id test, then conn = get_db_connection()
delete_connect(w, id) ==
  /\ Free(w)
  /\ ~InvalidId(id)
  /\ workers' = [workers EXCEPT ![w] = Entered(w, "delete", id, NoNote)]
  /\ UNCHANGED <<up, notes, seq, lockHeld, resp, issued, deleted, seedings,
                 lastCommit>>

\* cursor.execute(INSERT ...); new_id = cursor.lastrowid
create_execute(w) ==
  /\ workers[w].pc = "connected" /\ workers[w].op = "create"
  /\ ~lockHeld
  /\ LET ins == InsertRow(notes, seq, NoteValues(workers[w].note)) IN
       /\ ins.lastrowid <= MaxId
       /\ workers' = [workers EXCEPT ![w].pc = "executed", ![w].lock = TRUE,
                        ![w].txn = [tbl |-> ins.tbl, seq |-> ins.seq],
                        ![w].new_id = ins.lastrowid]
  /\ lockHeld' = TRUE
  /\ UNCHANGED <<up, notes, seq, resp, issued, deleted, seedings, lastCommit>>

\* cursor.execute(UPDATE ...); cursor.rowcount
update_execute(w) ==
  /\ workers[w].pc = "connected" /\ workers[w].op = "update"
  /\ ~lockHeld
  /\ LET upd == UpdateRows(notes, NoteValues(workers[w].note), workers[w].id) IN
       workers' = [workers EXCEPT ![w].pc = "executed", ![w].lock = TRUE,
                     ![w].txn = [tbl |-> upd.tbl, seq |-> seq],
                     ![w].rowcount = upd.rowcount]
  /\ lockHeld' = TRUE
  /\ UNCHANGED <<up, notes, seq, resp, issued, deleted, seedings, lastCommit>>

\* cursor.execute(DELETE ...); deleted_rows = cursor.rowcount
delete_execute(w) ==
  /\ workers[w].pc = "connected" /\ workers[w].op = "delete"
  /\ ~lockHeld
  /\ LET del == DeleteRows(notes, workers[w].id) IN
       workers' = [workers EXCEPT ![w].pc = "executed", ![w].lock = TRUE,
                     ![w].txn = [tbl |-> del.tbl, seq |-> seq],
                     ![w].rowcount = del.rowcount]
  /\ lockHeld' = TRUE
  /\ UNCHANGED <<up, notes, seq, resp, issued, deleted, seedings, lastCommit>>

\* cursor.execute raises "database is locked": another connection held the
\* write lock for the whole wait.  The except clause answers 500; the
\* connection is not closed.
execute_locked(w) ==
  /\ workers[w].pc = "connected"
  /\ lockHeld
  /\ workers' = [workers EXCEPT ![w].pc = "done",
                   ![w].exc = "database is locked",
                   ![w].status = CatchException("database is locked").status]
  /\ UNCHANGED <<up, notes, seq, lockHeld, resp, issued, deleted, seedings,
                 lastCommit>>

\* conn.commit() of worker w: its transaction becomes the committed state
\* and the write lock is free again.
Commit(w) ==
  /\ notes' = workers[w].txn.tbl
  /\ seq' = workers[w].txn.seq
  /\ lockHeld' = FALSE
  /\ lastCommit' = w

\* create_note: conn.commit(); conn.close(); return {...}
create_commit(w) ==
  /\ workers[w].pc = "executed" /\ workers[w].op = "create"
  /\ Commit(w)
  /\ issued' = Append(issued, workers[w].new_id)
  /\ workers' = [workers EXCEPT ![w].pc = "done", ![w].lock = FALSE,
                   ![w].txn = IdleWorker.txn, ![w].conn = "closed",
                   ![w].status = 200]
  /\ UNCHANGED <<up, resp, deleted, seedings>>

\* update_note: if cursor.rowcount == 0: raise HTTPException(404), caught by
\* the except clause; commit and close are skipped.
update_not_found(w) ==
  /\ workers[w].pc = "executed" /\ workers[w].op = "update"
  /\ workers[w].rowcount = 0
  /\ workers' = [workers EXCEPT ![w].pc = "done",
                   ![w].exc = "404: Note not found.",
                   ![w].status = CatchException("404: Note not found.").status]
  /\ UNCHANGED <<up, notes, seq, lockHeld, resp, issued, deleted, seedings,
                 lastCommit>>

\* update_note: conn.commit(); conn.close(); return note
update_commit(w) ==
  /\ workers[w].pc = "executed" /\ workers[w].op = "update"
  /\ workers[w].rowcount # 0
  /\ Commit(w)
  /\ workers' = [workers EXCEPT ![w].pc = "done", ![w].lock = FALSE,
                   ![w].txn = IdleWorker.txn, ![w].conn = "closed",
                   ![w].status = 200]
  /\ UNCHANGED <<up, resp, issued, deleted, seedings>>

\* delete_note: conn.commit(); conn.close(); then the rowcount test, whose
\* HTTPException(404) the except clause turns into 500.
delete_commit(w) ==
  /\ workers[w].pc = "executed" /\ workers[w].op = "delete"
  /\ Commit(w)
  /\ IF workers[w].rowcount = 0
       THEN /\ workers' = [workers EXCEPT ![w].pc = "done", ![w].lock = FALSE,
                             ![w].txn = IdleWorker.txn, ![w].conn = "closed",
                             ![w].exc = "404: Note with ID <id> not found.",
                             ![w].status =
                               CatchException("404: Note with ID <id> not found.").status]
            /\ UNCHANGED deleted
       ELSE /\ workers' = [workers EXCEPT ![w].pc = "done", ![w].lock = FALSE,
                             ![w].txn = IdleWorker.txn, ![w].conn = "closed",
                             ![w].status = 200]
            /\ deleted' = deleted \cup {workers[w].id}
  /\ UNCHANGED <<up, resp, issued, seedings>>

\* The connection a finished handler left open is finalised: sqlite3 closes
\* it, rolls its transaction back and frees the lock it held.
finalize(w) ==
  /\ workers[w].pc = "done" /\ workers[w].conn = "open"
  /\ workers' = [workers EXCEPT ![w].conn = "closed", ![w].lock = FALSE,
                   ![w].txn = IdleWorker.txn]
  /\ lockHeld' = (lockHeld /\ ~workers[w].lock)
  /\ UNCHANGED <<up, notes, seq, resp, issued, deleted, seedings, lastCommit>>

NextConc ==
  \/ \E w \in Workers, note \in ConcPayloads : create_connect(w, note)
  \/ \E w \in Workers, id \in TargetIds, note \in ConcPayloads :
       update_connect(w, id, note)
  \/ \E w \in Workers, id \in TargetIds : delete_connect(w, id)
  \/ \E w \in Workers : create_execute(w)
  \/ \E w \in Workers : update_execute(w)
  \/ \E w \in Workers : delete_execute(w)
  \/ \E w \in Workers : execute_locked(w)
  \/ \E w \in Workers : create_commit(w)
  \/ \E w \in Workers : update_not_found(w)
  \/ \E w \in Workers : update_commit(w)
  \/ \E w \in Workers : delete_commit(w)
  \/ \E w \in Workers : finalize(w)

SpecConc == InitConc /\ [][NextConc]_vars


\* ================================================================ claims
\* A step in which a handler served a request (create_database starts from
\* ~up, Stop ends in ~up, Finalize releases the lock).
RequestStep == up /\ up' /\ (lockHeld => lockHeld')

\* The request behind resp met no storage exception.
NoStorageError == resp.exc \notin StorageExceptions

\* C1: the rowids given to inserted rows (seed rows and created notes), in
\* the order they were given, are strictly increasing, hence pairwise
\* distinct and never given twice, whatever updates, deletes and restarts
\* came in between; the id a successful create computed is the latest one.
C1_IdsDistinctAndIncreasing ==
  /\ \A i, j \in 1..Len(issued) : i < j => issued[i] < issued[j]
  /\ resp.op = "create" /\ resp.status = 200
       => /\ resp.new_id = issued[Len(issued)]
          /\ resp.new_id \in DOMAIN notes

\* A create succeeded after the note with the largest id had been deleted.
C1_Witness ==
  /\ resp.op = "create" /\ resp.status = 200
  /\ \E d \in deleted :
       /\ d < resp.new_id
       /\ \A i \in DOMAIN notes \ {resp.new_id} : i < d

\* C2: no stored note has an empty field, and a create or update whose body
\* has an empty field is rejected as a validation failure before any
\* connection is opened (read in the claim's favour: a request that met a
\* storage exception is not held against it).
C2_EmptyFieldRejected ==
  /\ \A i \in DOMAIN notes : \A f \in Fields : notes[i][f] # ""
  /\ resp.op \in {"create", "update"} /\ NoStorageError
       /\ (\E f \in DOMAIN resp.note : resp.note[f] = "")
       => resp.status \in {400, 422} /\ resp.conn = "none"

\* C3: a list request whose query returned no row, with no storage
\* exception, answers 404.
C3_EmptyListIsNotFound ==
  resp.op = "list" /\ NoStorageError /\ resp.rowcount = 0 => resp.status = 404

\* C4: an id whose delete succeeded is absent from the table ever after, and
\* a later update or delete of it that ran its statement answers 404.
C4_DeleteIsTerminal ==
  /\ \A d \in deleted : d \notin DOMAIN notes
  /\ resp.op \in {"update", "delete"} /\ resp.id \in deleted
       /\ NoStorageError /\ resp.rowcount = 0
       => resp.status = 404

\* C5: the response of a successful create carries the id of the inserted
\* row together with the four submitted fields.
C5_CreateReturnsId ==
  resp.op = "create" /\ resp.status = 200
    => /\ "id" \in DOMAIN resp.body
       /\ resp.body.id = resp.new_id
       /\ \A f \in Fields : resp.body[f] = resp.note[f]

\* C6: a successful update(id, new) leaves the row id holding exactly the
\* four fields of new, and the set of ids in the table as it was.
C6_UpdateReplacesFully ==
  [][RequestStep /\ resp'.op = "update" /\ resp'.status = 200
       => /\ resp'.id \in DOMAIN notes
          /\ DOMAIN notes' = DOMAIN notes
          /\ DOMAIN notes'[resp'.id] = Fields
          /\ \A f \in Fields : notes'[resp'.id][f] = resp'.note[f]]_vars

\* An update replaced all four fields of a seed note.
C6_Witness ==
  /\ resp.op = "update" /\ resp.status = 200
  /\ resp.id \in {1, 2}
  /\ resp.note.residentName = "Carol Davis"
  /\ notes[resp.id].authorName = "Nurse Lee"

\* The list request behind resp came right after a successful create and
\* filtered by that note's residentName.
ListAfterCreate ==
  /\ resp.op = "list"
  /\ resp.prev.id > 0
  /\ resp.filter = resp.prev.note.residentName
  /\ NoStorageError

C8_DeleteRejectsNonPositiveId ==
  [][RequestStep /\ resp'.op = "delete" /\ resp'.id <= 0
       => /\ resp'.status = 400
          /\ resp'.conn = "none"
          /\ UNCHANGED <<notes, seq, lockHeld, deleted>>]_vars

\* Delete was called with an id that is not positive.
C8_Witness == resp.op = "delete" /\ resp.id <= 0 /\ resp.status = 400

\* C9 as stated: over the lifetime of the store the seed notes are inserted
\* at most once.
C9_SeededAtMostOnce == seedings <= 1

\* C9 amended: an initialize inserts the two seed notes exactly when it
\* finds the table without rows: it never seeds while a row exists, and it
\* seeds again, under fresh ids, after every note was deleted.
C9_SeedsExactlyWhenEmpty ==
  [][~up /\ up'
       => IF DOMAIN notes = {}
            THEN /\ seedings' = seedings + 1
                 /\ Cardinality(DOMAIN notes') = 2
                 /\ \A i \in DOMAIN notes' : i > seq
                 /\ {notes'[i] : i \in DOMAIN notes'} = {SeedNotes[1], SeedNotes[2]}
            ELSE /\ seedings' = seedings
                 /\ Cardinality(DOMAIN notes') = Cardinality(DOMAIN notes)]_vars

\* The store was seeded a second time, after its notes had been deleted.
C9_Witness == up /\ seedings = 2 /\ deleted # {}

\* C10: initialize on a never-used store leaves exactly Alice Johnson /
\* Nurse Smith under id 1 and Bob Williams / Dr. Brown under id 2; on a
\* table with a row it changes nothing; it always leaves a row, so a second
\* initialize in a row changes nothing.
C10_InitializeIdempotent ==
  [][~up /\ up'
       => /\ seq = 0 /\ DOMAIN notes = {}
               => /\ DOMAIN notes' = {1, 2}
                  /\ notes'[1].residentName = "Alice Johnson"
                  /\ notes'[1].authorName = "Nurse Smith"
                  /\ notes'[2].residentName = "Bob Williams"
                  /\ notes'[2].authorName = "Dr. Brown"
          /\ DOMAIN notes # {} => notes' = notes /\ seq' = seq
          /\ DOMAIN notes' # {}]_vars

\* The process was started again on a table that held rows and had lost
\* some: the seeding of the first start is still the only one.
C10_Witness ==
  /\ up /\ resp.op = "none"
  /\ seedings = 1
  /\ deleted # {}
  /\ DOMAIN notes # {}


\* C11: a request that has finished, whatever its outcome, has no
\* connection of its own left open.
C11_ConnectionReleased ==
  resp.op \in {"create", "list", "update", "delete"} => resp.conn # "open"

\* The stored notes a list with the given filter is to return: all of them
\* without a filter, else those of that resident.
Matching(tbl, filter) ==
  {i \in DOMAIN tbl : filter = NoFilter \/ tbl[i].residentName = filter}

\* The items of a list response are the rows with the ids in S, one each.
ItemsAre(items, tbl, S) ==
  /\ {items[k].id : k \in 1..Len(items)} = S
  /\ Len(items) = Cardinality(S)
  /\ \A k \in 1..Len(items) :
       \A f \in Fields : items[k][f] = tbl[items[k].id][f]

\* C12 as stated: a successful list with filter F, the empty string
\* included, returns exactly the stored notes whose residentName is F, all
\* notes without a filter, and list leaves the store as it was.
C12_ListExactlyFiltered ==
  [][RequestStep /\ resp'.op = "list"
       => /\ UNCHANGED <<notes, seq>>
          /\ resp'.status = 200
               => ItemsAre(resp'.items, notes, Matching(notes, resp'.filter))]_vars

\* C14: a request that meets a storage exception (no connection, or the
\* database locked) ends with 500 and leaves the table and its id sequence
\* as they were.
C14_StorageFailureIsTerminal ==
  [][RequestStep /\ resp'.exc \in StorageExceptions
       => /\ resp'.status = 500
          /\ UNCHANGED <<notes, seq, issued, deleted>>]_vars

\* A delete of an existing note found the database locked and failed, the
\* note still being there.
C14_Witness ==
  /\ resp.op = "delete" /\ resp.exc = "database is locked"
  /\ resp.status = 500
  /\ resp.id \in DOMAIN notes


\* Worker w has returned from the handler of `op` with a 200 response.
Returned(w, op) ==
  /\ workers[w].pc = "done"
  /\ workers[w].op = op
  /\ workers[w].status = 200

\* C13: with update requests for the same id running at once, every stored
\* note is, in full, a note as it was seeded or the four fields of one
\* payload, never fields of two payloads mixed; and while the update that
\* committed last is the latest answer of its worker, the stored note under
\* its id is that update's payload.
C13_AtomicLastWriteWins ==
  /\ \A i \in DOMAIN notes :
       notes[i] \in {SeedNotes[k] : k \in DOMAIN SeedNotes}
                      \cup {NoteValues(p) : p \in ConcPayloads}
  /\ \A w \in Workers :
       lastCommit = w /\ Returned(w, "update")
         => /\ workers[w].id \in DOMAIN notes
            /\ notes[workers[w].id] = NoteValues(workers[w].note)

C13_Witness ==
  /\ \A w \in Workers : Returned(w, "update") /\ workers[w].id = 1
  /\ workers["w1"].note # workers["w2"].note
  /\ \E w \in Workers : workers[w].overlap
  /\ lastCommit \in Workers
  /\ notes[1] = NoteValues(workers[lastCommit].note)

\* Worker w leaves its handler past the statement in this step.
Finishes(w, op) ==
  /\ workers[w].pc = "executed"
  /\ workers[w].op = op
  /\ workers'[w].pc = "done"

\* Every row of tbl other than row id is in tbl2 as it is in tbl.
OthersKept(tbl, tbl2, id) ==
  \A i \in DOMAIN tbl \ {id} : i \in DOMAIN tbl2 /\ tbl2[i] = tbl[i]

\* C15: the stored notes change only where a create, an update or a delete
\* finishes; a create adds exactly one row and keeps every other; an update
\* or delete keeps every row of another id; an update neither adds nor
\* removes a row; an update or delete whose id no row has changes nothing.
C15_Frame ==
  [][/\ (\A w \in Workers : workers[w].pc = "executed" => workers'[w].pc # "done")
          => notes' = notes
     /\ \A w \in Workers :
          /\ Finishes(w, "create")
               => /\ OthersKept(notes, notes', 0)
                  /\ Cardinality(DOMAIN notes') = Cardinality(DOMAIN notes) + 1
          /\ Finishes(w, "update")
               => /\ OthersKept(notes, notes', workers[w].id)
                  /\ DOMAIN notes' = DOMAIN notes
          /\ Finishes(w, "delete")
               => /\ OthersKept(notes, notes', workers[w].id)
                  /\ DOMAIN notes' \subseteq DOMAIN notes
          /\ Finishes(w, "update") \/ Finishes(w, "delete")
               => (workers[w].id \notin DOMAIN notes => notes' = notes)]_vars

C15_Witness ==
  /\ 1 \notin DOMAIN notes
  /\ 1 \in deleted
  /\ \E w \in Workers :
       /\ workers[w].pc = "done" /\ workers[w].op = "update"
       /\ workers[w].id = 1 /\ workers[w].rowcount = 0
       /\ workers[w].status = 500
       /\ workers[w].overlap

\* C16: create requests on connections of their own get distinct ids, and
\* the id each one computed is the id of the stored row that holds that
\* request's own four fields.
C16_ConcurrentCreates ==
  /\ \A w \in Workers :
       Returned(w, "create")
         => /\ workers[w].new_id \in DOMAIN notes
            /\ notes[workers[w].new_id] = NoteValues(workers[w].note)
  /\ \A w \in Workers : \A o \in Workers \ {w} :
       /\ workers[w].op = "create" /\ workers[w].new_id # 0
       /\ workers[o].op = "create" /\ workers[o].new_id # 0
       => workers[w].new_id # workers[o].new_id

C16_Witness ==
  /\ \A w \in Workers : Returned(w, "create")
  /\ workers["w1"].note # workers["w2"].note
  /\ workers["w1"].new_id # workers["w2"].new_id
  /\ \E w \in Workers : workers[w].overlap
  /\ \A w \in Workers : notes[workers[w].new_id] = NoteValues(workers[w].note)

====
